---------------------------- MODULE Spec2Model ----------------------------
(***************************************************************************)
(* Model of src/monitor/static/app.js: the polling dashboard in its two    *)
(* variants, the class-based MonitorDashboard (lines 1-153) and the React  *)
(* function component MonitorDashboard (lines 154-369).                    *)
(*                                                                         *)
(* JavaScript values are represented as follows.                           *)
(*   - a string is a sequence of one-character strings;                    *)
(*   - a money/percentage number is an integer count of hundredths, so     *)
(*     that toFixed(2) is exact;                                           *)
(*   - a property is a sequence of length 0 (missing, reads undefined) or  *)
(*     of length 1 holding its value;                                      *)
(*   - a decoded body is a record [kind, obj] or [kind, arr], kind telling *)
(*     JSON null from an object/array and from a body json() rejects;      *)
(*   - rendered text is a sequence of string tokens;                       *)
(*   - an object used as a map (snapshot.symbols) is the sequence of its   *)
(*     values in insertion order (Object.values);                          *)
(*   - a Date is a record [date, time]; toLocaleTimeString keeps .time.    *)
(***************************************************************************)
EXTENDS Integers, Sequences, FiniteSets, TLC

VARIABLES
    variant,      \* "class" (lines 1-153) or "react" (lines 154-369)
    isUpdating,   \* this.isUpdating / the isUpdating state of useState
    mounted,      \* the React component is mounted (its interval is set)
    cycles,       \* the update cycles in flight, by cycle number
    started,      \* number of cycles started so far
    ticks,        \* number of timer ticks fired so far
    dom,          \* class variant: the elements the renderer writes
    snapshot,     \* React state snapshot
    signals,      \* React state signals
    lastUpdate,   \* React state lastUpdate
    lastOutcome,  \* history: how the sub-fetch settled by the last step ended
    now,          \* milliseconds since the dashboard was constructed
    tornDown,     \* the host has torn the dashboard down
    requests,     \* history: number of requests issued, per endpoint
    input         \* history: the last value handed to each render path

vars == <<variant, isUpdating, mounted, cycles, started, ticks,
          dom, snapshot, signals, lastUpdate, lastOutcome,
          now, tornDown, requests, input>>

(***************************************************************************)
(* Bounds of the exploration.                                              *)
(***************************************************************************)
MaxTicks == 2
MaxCycles == 2
MaxSignals == 15      \* longest signal history handed to the renderer
MaxUptime == 7300     \* largest uptime_seconds handed to the renderer

\* this.updateInterval = 2000, line 3; setInterval(updateData, 2000), line 210
updateInterval == 2000

(***************************************************************************)
(* JavaScript values.                                                      *)
(***************************************************************************)
None == <<>>
Some(x) == <<x>>
Def(p) == Len(p) = 1
Val(p) == p[1]

\* JavaScript truthiness of a numeric property (undefined and 0 are falsy).
Truthy(p) == Def(p) /\ Val(p) # 0

\* JavaScript truthiness of a boolean property.
TruthyBool(p) == Def(p) /\ Val(p)

(***************************************************************************)
(* Strings.                                                                *)
(***************************************************************************)
UpperChars == <<"A","B","C","D","E","F","G","H","I","J","K","L","M",
                "N","O","P","Q","R","S","T","U","V","W","X","Y","Z">>
LowerChars == <<"a","b","c","d","e","f","g","h","i","j","k","l","m",
                "n","o","p","q","r","s","t","u","v","w","x","y","z">>

ToLowerChar(c) ==
    IF \E i \in 1..Len(UpperChars) : UpperChars[i] = c
    THEN LowerChars[CHOOSE i \in 1..Len(UpperChars) : UpperChars[i] = c]
    ELSE c

\* String.prototype.toLowerCase
ToLowerCase(s) == [i \in 1..Len(s) |-> ToLowerChar(s[i])]

IsLowerAlpha(c) == \E i \in 1..Len(LowerChars) : LowerChars[i] = c

\* s.replace(/[^a-z]/g, '')
StripNonLower(s) == SelectSeq(s, IsLowerAlpha)

\* String.prototype.includes
Includes(s, sub) ==
    \E i \in 0..(Len(s) - Len(sub)) :
        \A j \in 1..Len(sub) : s[i + j] = sub[j]

\* `${p}` of a string property: a missing one interpolates as "undefined".
Interp(p) == IF Def(p) THEN Val(p) ELSE <<"undefined">>

\* `${p}` or p + '' of a numeric property.
InterpNum(p) == IF Def(p) THEN <<ToString(Val(p))>> ELSE <<"undefined">>

\* el.textContent = p : undefined is written as the empty text.
TextContent(p) == IF Def(p) THEN Val(p) ELSE <<>>
TextContentNum(p) == IF Def(p) THEN <<ToString(Val(p))>> ELSE <<>>

(***************************************************************************)
(* Numbers and dates.                                                      *)
(***************************************************************************)
Abs(n) == IF n < 0 THEN 0 - n ELSE n

PadTwo(f) == IF f < 10 THEN "0" \o ToString(f) ELSE ToString(f)

\* Number.prototype.toFixed(2) of a number held in hundredths.
ToFixed2(n) ==
    (IF n < 0 THEN "-" ELSE "") \o ToString(Abs(n) \div 100)
        \o "." \o PadTwo(Abs(n) % 100)

\* new Date(p).toLocaleTimeString()
LocaleTimeString(p) == IF Def(p) THEN "time:" \o ToString(Val(p).time) ELSE "Invalid Date"

\* Mutant of formatUptime: the minutes are not reduced modulo the hour.
formatUptimeNoMod(p) ==
    IF Def(p)
    THEN <<ToString(Val(p) \div 3600), "h", ToString(Val(p) \div 60), "m">>
    ELSE <<"NaN", "h", "NaN", "m">>

\* formatUptime(seconds), lines 143-147 and 201-205; the tokens "h" and "m"
\* stand for the two unit words of the template.
formatUptime(p) ==
    IF Def(p)
    THEN <<ToString(Val(p) \div 3600), "h", ToString((Val(p) % 3600) \div 60), "m">>
    ELSE <<"NaN", "h", "NaN", "m">>

(***************************************************************************)
(* Response bodies the backend may send.  A body is what response.json()   *)
(* yields: an object, an array, JSON null, or a rejection (undecodable).   *)
(***************************************************************************)
Chars_Running == <<"R","u","n","n","i","n","g">>
Chars_Stopped == <<"S","t","o","p","p","e","d">>
Chars_Degraded == <<"D","e","g","r","a","d","e","d","!">>
Chars_SPY == <<"S","P","Y">>
Chars_Uptrend == <<"U","p","t","r","e","n","d">>
Chars_BUY == <<"B","U","Y">>
Chars_sell == <<"s","e","l","l">>
Chars_reason == <<"p","u","l","l","b","a","c","k">>

SymSPY ==
    [symbol |-> Some(Chars_SPY), trend |-> Some(Chars_Uptrend),
     current_price |-> Some(15248), price_change_pct |-> Some(-125)]

\* The object {} : every property reads undefined.
EmptyObject ==
    [system_status |-> None, timestamp |-> None, total_signals |-> None,
     active_positions |-> None, daily_pnl |-> None,
     data_feed_connected |-> None, trading_api_connected |-> None,
     cpu_usage |-> None, memory_usage |-> None, uptime_seconds |-> None,
     symbols |-> None]

SnapRunning ==
    [system_status |-> Some(Chars_Running),
     timestamp |-> Some([date |-> 1, time |-> 10]),
     total_signals |-> Some(3), active_positions |-> Some(1),
     daily_pnl |-> Some(1250),
     data_feed_connected |-> Some(TRUE), trading_api_connected |-> Some(FALSE),
     cpu_usage |-> Some(12), memory_usage |-> Some(40),
     uptime_seconds |-> Some(3725),
     symbols |-> Some(<<SymSPY>>)]

SnapStopped ==
    [system_status |-> Some(Chars_Stopped),
     timestamp |-> Some([date |-> 1, time |-> 20]),
     total_signals |-> Some(4), active_positions |-> Some(0),
     daily_pnl |-> Some(-1250),
     data_feed_connected |-> Some(FALSE), trading_api_connected |-> Some(TRUE),
     cpu_usage |-> Some(55), memory_usage |-> Some(41),
     uptime_seconds |-> Some(7260),
     symbols |-> Some(<<>>)]

\* A body that decodes but lacks daily_pnl and symbols.
SnapNoPnl ==
    [EmptyObject EXCEPT !.system_status = Some(Chars_Degraded),
                        !.timestamp = Some([date |-> 1, time |-> 30]),
                        !.total_signals = Some(5),
                        !.active_positions = Some(2)]

ObjectBody(o) == [kind |-> "object", obj |-> o]
NullSnapshotBody == [kind |-> "null", obj |-> EmptyObject]
UndecodableSnapshotBody == [kind |-> "undecodable", obj |-> EmptyObject]

SnapshotBodies ==
    {ObjectBody(SnapRunning), ObjectBody(SnapStopped), ObjectBody(SnapNoPnl),
     NullSnapshotBody, UndecodableSnapshotBody}

SigBuy ==
    [signal_type |-> Some(Chars_BUY), symbol |-> Some(Chars_SPY),
     price |-> Some(15248), timestamp |-> Some([date |-> 1, time |-> 5]),
     reason |-> Some(Chars_reason)]

SigSell ==
    [signal_type |-> Some(Chars_sell), symbol |-> Some(Chars_SPY),
     price |-> Some(15300), timestamp |-> Some([date |-> 1, time |-> 15]),
     reason |-> Some(Chars_reason)]

\* A signal object without a price.
SigNoPrice == [SigBuy EXCEPT !.price = None]

ArrayBody(a) == [kind |-> "array", arr |-> a]
NullSignalsBody == [kind |-> "null", arr |-> <<>>]
UndecodableSignalsBody == [kind |-> "undecodable", arr |-> <<>>]

SignalsBodies ==
    {ArrayBody(<<>>), ArrayBody(<<SigSell, SigBuy>>),
     ArrayBody(<<SigSell, SigNoPrice>>), NullSignalsBody, UndecodableSignalsBody}

(***************************************************************************)
(* The class variant's renderer: it writes the DOM element by element, and *)
(* an exception leaves the elements written so far in place.               *)
(***************************************************************************)
RECURSIVE Concat(_)
Concat(ss) == IF ss = <<>> THEN <<>> ELSE Head(ss) \o Concat(Tail(ss))

\* Mutant of Slice: the cut is off by one, slice(0, n + 1).
SliceOffByOne(a, n) == SubSeq(a, 1, IF Len(a) < n + 1 THEN Len(a) ELSE n + 1)

\* Array.prototype.slice(0, n)
Slice(a, n) == SubSeq(a, 1, IF Len(a) < n THEN Len(a) ELSE n)

\* The static page before any render call.
StaticText == <<"static">>

InitialDom ==
    [statusText |-> StaticText, statusClass |-> StaticText,
     lastUpdate |-> StaticText, totalSignals |-> StaticText,
     activePositions |-> StaticText, pnlText |-> StaticText,
     pnlColor |-> StaticText, dataFeed |-> StaticText,
     tradingApi |-> StaticText, cpu |-> StaticText, memory |-> StaticText,
     uptime |-> StaticText, symbolsHtml |-> StaticText,
     signalsHtml |-> StaticText]

\* The sign test of lines 66 and 107.
SignColor(n) == IF n >= 0 THEN "#27ae60" ELSE "#e74c3c"

\* One element of the map of lines 94-113.
SymbolItemHtml(sym) ==
    <<"symbol-item">> \o Interp(sym.symbol)
        \o <<"trend-">> \o ToLowerCase(Val(sym.trend)) \o Val(sym.trend)
        \o <<"$" \o (IF Truthy(sym.current_price)
                     THEN ToFixed2(Val(sym.current_price)) ELSE "--")>>
        \o (IF Truthy(sym.price_change_pct)
            THEN <<"color:" \o SignColor(Val(sym.price_change_pct)),
                   ToFixed2(Val(sym.price_change_pct)) \o "%">>
            ELSE <<>>)

\* Mutant of renderSymbols: the early return for an empty mapping leaves the
\* list as it is instead of writing the placeholder.
renderSymbolsKeepOnEmpty(d, symbols) ==
    IF ~Def(symbols)
    THEN d
    ELSE IF Len(Val(symbols)) = 0
    THEN d
    ELSE IF \E i \in 1..Len(Val(symbols)) : ~Def(Val(symbols)[i].trend)
    THEN d
    ELSE [d EXCEPT !.symbolsHtml =
            Concat([i \in 1..Len(Val(symbols)) |-> SymbolItemHtml(Val(symbols)[i])])]

\* renderSymbols(symbols), lines 86-116
renderSymbols(d, symbols) ==
    IF ~Def(symbols)
    THEN d                                  \* Object.keys(undefined) throws
    ELSE IF Len(Val(symbols)) = 0
    THEN [d EXCEPT !.symbolsHtml = <<"no-symbols">>]
    ELSE IF \E i \in 1..Len(Val(symbols)) : ~Def(Val(symbols)[i].trend)
    THEN d                                  \* trend.toLowerCase() throws
    ELSE [d EXCEPT !.symbolsHtml =
            Concat([i \in 1..Len(Val(symbols)) |-> SymbolItemHtml(Val(symbols)[i])])]

\* renderSnapshot(data), lines 49-84
renderSnapshot(d, body) ==
    IF body.kind # "object"
    THEN d                                  \* null.system_status throws
    ELSE
    LET o == body.obj
        d1 == [d EXCEPT !.statusText = TextContent(o.system_status)]
    IN  IF ~Def(o.system_status)
        THEN d1                             \* undefined.toLowerCase() throws
        ELSE
        LET d2 == [d1 EXCEPT
                    !.statusClass = <<"status-indicator ">>
                        \o StripNonLower(ToLowerCase(Val(o.system_status))),
                    !.lastUpdate = <<"last-update: ", LocaleTimeString(o.timestamp)>>,
                    !.totalSignals = TextContentNum(o.total_signals),
                    !.activePositions = TextContentNum(o.active_positions)]
        IN  IF ~Def(o.daily_pnl)
            THEN d2                         \* undefined.toFixed throws
            ELSE
            LET d3 == [d2 EXCEPT
                        !.pnlText = <<"$" \o ToFixed2(Val(o.daily_pnl))>>,
                        !.pnlColor = <<SignColor(Val(o.daily_pnl))>>,
                        !.dataFeed = <<"connection-indicator ",
                            IF TruthyBool(o.data_feed_connected)
                            THEN "connected" ELSE "disconnected">>,
                        !.tradingApi = <<"connection-indicator ",
                            IF TruthyBool(o.trading_api_connected)
                            THEN "connected" ELSE "disconnected">>,
                        !.cpu = InterpNum(o.cpu_usage) \o <<"%">>,
                        !.memory = InterpNum(o.memory_usage) \o <<"%">>,
                        !.uptime = formatUptime(o.uptime_seconds)]
            IN  renderSymbols(d3, o.symbols)

\* One element of the map of lines 126-138.
SignalItemHtml(sig) ==
    <<"signal-item", "signal-">> \o ToLowerCase(Val(sig.signal_type))
        \o Val(sig.signal_type) \o Interp(sig.symbol)
        \o <<"$" \o ToFixed2(Val(sig.price)), LocaleTimeString(sig.timestamp)>>
        \o Interp(sig.reason)

\* An element on which the map throws (signal_type.toLowerCase, price.toFixed).
SignalItemThrows(sig) == ~Def(sig.signal_type) \/ ~Def(sig.price)

\* renderSignals(signals), lines 118-141
renderSignals(d, body) ==
    IF body.kind # "array"
    THEN d                                  \* null.length throws
    ELSE IF Len(body.arr) = 0
    THEN [d EXCEPT !.signalsHtml = <<"no-signals">>]
    ELSE LET shown == Slice(body.arr, 10)
         IN  IF \E i \in 1..Len(shown) : SignalItemThrows(shown[i])
             THEN d
             ELSE [d EXCEPT !.signalsHtml =
                     Concat([i \in 1..Len(shown) |-> SignalItemHtml(shown[i])])]

(***************************************************************************)
(* The React variant's renderer: the view is a function of the component   *)
(* state; an exception while rendering unmounts the root.                  *)
(***************************************************************************)
\* The status badge colour of lines 230-234.
StatusBadge(status) ==
    IF Includes(ToLowerCase(status), <<"r","u","n","n","i","n","g">>) THEN "bg-green-600"
    ELSE IF Includes(ToLowerCase(status), <<"s","t","o","p","p","e","d">>) THEN "bg-red-600"
    ELSE "bg-yellow-600"

\* The trend colour of lines 313-317.
TrendBadge(trend) ==
    IF ToLowerCase(trend) = <<"u","p","t","r","e","n","d">> THEN "bg-green-600"
    ELSE IF ToLowerCase(trend) = <<"d","o","w","n","t","r","e","n","d">> THEN "bg-red-600"
    ELSE "bg-yellow-600"

\* {p} of a numeric property in JSX: undefined renders nothing.
JsxNum(p) == IF Def(p) THEN <<ToString(Val(p))>> ELSE <<>>

\* {p} of a string property in JSX.
JsxText(p) == IF Def(p) THEN Val(p) ELSE <<>>

\* One element of the map of lines 309-332.
ReactSymbolItem(sym) ==
    <<"symbol-item">> \o JsxText(sym.symbol)
        \o <<TrendBadge(Val(sym.trend))>> \o Val(sym.trend)
        \o <<"$" \o (IF Truthy(sym.current_price)
                     THEN ToFixed2(Val(sym.current_price)) ELSE "--")>>
        \o (IF ~Def(sym.price_change_pct) THEN <<>>
            ELSE IF Val(sym.price_change_pct) = 0 THEN <<"0">>
            ELSE <<IF Val(sym.price_change_pct) >= 0
                   THEN "text-green-600" ELSE "text-red-600",
                   ToFixed2(Val(sym.price_change_pct)) \o "%">>)

\* One element of the map of lines 344-358.
ReactSignalItem(sig) ==
    <<"signal-item",
      IF ToLowerCase(Val(sig.signal_type)) = <<"b","u","y">>
      THEN "bg-green-600" ELSE "bg-red-600">>
        \o Val(sig.signal_type) \o JsxText(sig.symbol)
        \o <<"$" \o ToFixed2(Val(sig.price)), LocaleTimeString(sig.timestamp)>>
        \o JsxText(sig.reason)

\* The signals panel of lines 341-359 for a value of the signals state.
ReactSignalsPanel(sg) ==
    IF Len(sg.arr) = 0 THEN <<"no-signals">>
    ELSE LET shown == Slice(sg.arr, 10)
         IN  Concat([i \in 1..Len(shown) |-> ReactSignalItem(shown[i])])

\* The snapshot panels of lines 224-335 for an object held in the snapshot state.
ReactSnapshotPanels(o, lu) ==
    [statusText |-> Val(o.system_status),
     statusClass |-> <<StatusBadge(Val(o.system_status))>>,
     lastUpdate |-> <<"last-update: ", lu>>,
     totalSignals |-> JsxNum(o.total_signals),
     activePositions |-> JsxNum(o.active_positions),
     pnlText |-> <<"$" \o ToFixed2(Val(o.daily_pnl))>>,
     pnlColor |-> <<IF Val(o.daily_pnl) >= 0 THEN "text-green-600" ELSE "text-red-600">>,
     dataFeed |-> <<IF TruthyBool(o.data_feed_connected)
                    THEN "text-green-600" ELSE "text-red-600">>,
     tradingApi |-> <<IF TruthyBool(o.trading_api_connected)
                      THEN "text-green-600" ELSE "text-red-600">>,
     cpu |-> JsxNum(o.cpu_usage) \o <<"%">>,
     memory |-> JsxNum(o.memory_usage) \o <<"%">>,
     uptime |-> formatUptime(o.uptime_seconds),
     symbolsHtml |->
        IF Len(Val(o.symbols)) = 0 THEN <<"no-symbols">>
        ELSE Concat([i \in 1..Len(Val(o.symbols)) |-> ReactSymbolItem(Val(o.symbols)[i])])]

\* if (!snapshot), line 214: null is falsy, every object is truthy.
SnapshotFalsy(sn) == sn.kind # "object"

\* The signals panel of lines 341-359 throws on this value of the state.
ReactSignalsThrow(sg) ==
    \/ sg.kind # "array"                    \* null.length
    \/ \E i \in 1..Len(Slice(sg.arr, 10)) : SignalItemThrows(sg.arr[i])

\* The render of lines 214-364 throws on this state.
ReactRenderThrows(sn, sg) ==
    /\ ~SnapshotFalsy(sn)
    /\ \/ ~Def(sn.obj.system_status)
       \/ ~Def(sn.obj.daily_pnl)
       \/ ~Def(sn.obj.symbols)
       \/ \E i \in 1..Len(Val(sn.obj.symbols)) : ~Def(Val(sn.obj.symbols)[i].trend)
       \/ ReactSignalsThrow(sg)

(***************************************************************************)
(* Update cycles.  A sub-fetch is "fetching" until its async function has  *)
(* run to its end; it is then "ok" when it obtained a 2xx response whose   *)
(* body decodes to the documented shape, and "failed" otherwise.  The      *)
(* step that settles it records in lastOutcome how it ended:               *)
(*   "transport"    fetch rejected;                                        *)
(*   "status"       the response had a non-success status;                 *)
(*   "undecodable"  2xx, json() rejected;                                  *)
(*   "malformed"    2xx, decoded, not of the documented shape;             *)
(* and "none" for a 2xx response decoded to the documented shape.          *)
(* The code does not compute this classification: it is section 7 of the   *)
(* specification, kept as history so that the claims can be stated.        *)
(***************************************************************************)
Settled == {"failed", "ok"}
SubState(out) == IF out = "ok" THEN "ok" ELSE "failed"

\* What lastOutcome keeps of an outcome: the kind of failure, "none" for a
\* success (the sub-fetch state "ok" records it).
Failure(out) == IF out = "ok" THEN "none" ELSE out

\* The documented Snapshot shape of /api/snapshot.
WellFormedSnapshot(body) ==
    /\ body.kind = "object"
    /\ \A f \in DOMAIN body.obj : Def(body.obj[f])
    /\ \A i \in 1..Len(Val(body.obj.symbols)) :
          \A f \in DOMAIN Val(body.obj.symbols)[i] : Def(Val(body.obj.symbols)[i][f])

\* The documented shape of /api/signals: an array of Signal objects.
WellFormedSignals(body) ==
    /\ body.kind = "array"
    /\ \A i \in 1..Len(body.arr) : \A f \in DOMAIN body.arr[i] : Def(body.arr[i][f])

Outcome(ok, body, wellFormed) ==
    IF ~ok THEN "status"
    ELSE IF body.kind = "undecodable" THEN "undecodable"
    ELSE IF wellFormed THEN "ok"
    ELSE "malformed"

\* The signals panel as the component state determines it.
SignalView ==
    IF variant = "class" THEN dom.signalsHtml
    ELSE IF ~mounted THEN <<"blank">>
    ELSE IF ReactSignalsThrow(signals) THEN <<"unrenderable">>
    ELSE ReactSignalsPanel(signals)

\* The signals panel as displayed: the React component shows it only past
\* the early return of lines 214-222.
DisplayedSignals ==
    IF variant = "class" THEN dom.signalsHtml
    ELSE IF ~mounted THEN <<"blank">>
    ELSE IF SnapshotFalsy(snapshot) THEN <<"loading">>
    ELSE ReactSignalsPanel(signals)

SnapshotFields == DOMAIN InitialDom \ {"signalsHtml"}

\* The snapshot-derived part of the display.
SnapshotView ==
    IF variant = "class" THEN [f \in SnapshotFields |-> dom[f]]
    ELSE IF ~mounted THEN [f \in SnapshotFields |-> <<"blank">>]
    ELSE IF SnapshotFalsy(snapshot) THEN [f \in SnapshotFields |-> <<"loading">>]
    ELSE ReactSnapshotPanels(snapshot.obj, lastUpdate)

\* "no data yet" / "showing data"; "blank" once the React root is unmounted.
DisplayState ==
    IF variant = "class"
    THEN IF SnapshotView = [f \in SnapshotFields |-> StaticText]
         THEN "nodata" ELSE "showing"
    ELSE IF ~mounted THEN "blank"
    ELSE IF SnapshotFalsy(snapshot) THEN "nodata"
    ELSE "showing"

\* The display of a body of the documented shape, rendered on its own.
SnapshotViewOf(body) ==
    IF variant = "class"
    THEN [f \in SnapshotFields |-> renderSnapshot(InitialDom, body)[f]]
    ELSE ReactSnapshotPanels(body.obj, LocaleTimeString(body.obj.timestamp))

SignalViewOf(body) ==
    IF variant = "class" THEN renderSignals(InitialDom, body).signalsHtml
    ELSE ReactSignalsPanel(body)

\* const [isUpdating] of the render whose closure the effect of lines
\* 208-212 captured: the effect has no dependencies, so the interval keeps
\* calling the updateData of the first render, where isUpdating is false.
capturedIsUpdating == FALSE

\* The value `if (isUpdating) return` reads, lines 14 and 188.
GuardRead == IF variant = "class" THEN isUpdating ELSE capturedIsUpdating

\* A cycle whose Promise.all has settled and whose finally block has not run:
\* the continuation is a microtask and runs before any other task.
MicrotaskPending ==
    \E c \in DOMAIN cycles : cycles[c].snap \in Settled /\ cycles[c].sig \in Settled

\* The bookkeeping of a cycle: the state of its two sub-fetches, the bodies
\* of those that succeeded and were rendered, the signals panel as it was
\* when it started, and
\* whether, while a sub-fetch is pending, the payload of a cycle started
\* later has been rendered for the same entity.
NewCycle ==
    [snap |-> "fetching", sig |-> "fetching",
     snapBody |-> NullSnapshotBody, sigBody |-> NullSignalsBody,
     sigBefore |-> SignalView,
     snapOvertaken |-> FALSE, sigOvertaken |-> FALSE]

\* A state setter of the component: a no-op once the component is unmounted.
SetState(old, new) == IF mounted THEN new ELSE old

\* A render call reaches the display: always in the class variant, while
\* the component is mounted in the React variant.
Rendering == variant = "class" \/ mounted

\* No value has been handed to the render paths yet.
NoInput ==
    [snap |-> NullSnapshotBody, sig |-> NullSignalsBody,
     repeated |-> FALSE, prevSymbols |-> 0]

Init ==
    /\ variant \in {"class", "react"}
    /\ mounted = TRUE
    /\ dom = InitialDom
    /\ snapshot = NullSnapshotBody
    /\ signals = ArrayBody(<<>>)
    /\ lastUpdate = "--"
    /\ lastOutcome = "none"
    /\ ticks = 0
    /\ now = 0
    /\ tornDown = FALSE
    /\ input = NoInput
    \* the constructor / the effect calls updateData() once, lines 9 and 209
    /\ isUpdating = TRUE
    /\ started = 1
    /\ requests = [snap |-> 1, sig |-> 1]
    /\ cycles = (1 :> [snap |-> "fetching", sig |-> "fetching",
                       snapBody |-> NullSnapshotBody, sigBody |-> NullSignalsBody,
                       sigBefore |-> IF variant = "class" THEN InitialDom.signalsHtml
                                     ELSE ReactSignalsPanel(ArrayBody(<<>>)),
                       snapOvertaken |-> FALSE, sigOvertaken |-> FALSE])

\* updateData() up to its await, lines 13-21 and 187-192.
updateData ==
    IF GuardRead
    THEN UNCHANGED <<isUpdating, cycles, started, requests>>
    ELSE /\ isUpdating' = (IF variant = "class" THEN TRUE ELSE SetState(isUpdating, TRUE))
         \* updateSnapshot() and updateSignals() each run up to their first
         \* await, the call of fetch, before Promise.all is awaited
         /\ requests' = [snap |-> requests.snap + 1, sig |-> requests.sig + 1]
         /\ cycles' = cycles @@ ((started + 1) :> NewCycle)
         /\ started' = started + 1

\* The interval of lines 10 and 210 is set: the class variant never clears
\* it, the cleanup of line 211 clears it when the component is unmounted.
IntervalSet == variant = "class" \/ mounted

\* The interval of lines 10 and 210 fires.
Tick ==
    /\ GuardRead \/ started < MaxCycles
    /\ ticks' = ticks + 1
    /\ updateData

\* updateInterval milliseconds pass; the interval, when set, fires.
PeriodElapses ==
    /\ ~MicrotaskPending
    /\ now < MaxTicks * updateInterval
    /\ now' = now + updateInterval
    /\ IF IntervalSet
       THEN Tick
       ELSE UNCHANGED <<ticks, isUpdating, cycles, started, requests>>
    /\ lastOutcome' = "none"
    /\ UNCHANGED <<variant, mounted, dom, snapshot, signals, lastUpdate,
                   tornDown, input>>

\* The host tears the dashboard down.  React: the root is unmounted and the
\* cleanup of line 211 clears the interval.  Class: line 10 discards the
\* handle setInterval returns and lines 1-153 define nothing that clears the
\* interval, so no part of the dashboard changes.  Unmounting a root that
\* a render exception has already unmounted does nothing.
Teardown ==
    /\ ~tornDown
    /\ Rendering
    /\ ~MicrotaskPending
    /\ tornDown' = TRUE
    /\ mounted' = (IF variant = "react" THEN FALSE ELSE mounted)
    /\ lastOutcome' = "none"
    /\ UNCHANGED <<variant, isUpdating, cycles, started, ticks, dom, snapshot,
                   signals, lastUpdate, now, requests, input>>

\* this.renderSnapshot(data), line 33 / setSnapshot(data); setLastUpdate(...),
\* lines 168-169, followed by the re-render of the component.
RenderSnapshotCall(body) ==
    IF variant = "class"
    THEN /\ dom' = renderSnapshot(dom, body)
         /\ UNCHANGED <<snapshot, lastUpdate, mounted>>
    ELSE /\ snapshot' = SetState(snapshot, body)
         \* data.timestamp throws on null, after setSnapshot(null)
         /\ lastUpdate' = IF body.kind = "object"
                          THEN SetState(lastUpdate, LocaleTimeString(body.obj.timestamp))
                          ELSE lastUpdate
         /\ mounted' = (mounted /\ ~ReactRenderThrows(body, signals))
         /\ UNCHANGED dom

\* Mutant of RenderSignalsCall: the signals are rendered only once the
\* snapshot fetch of the same cycle has succeeded.
RenderSignalsCallAfterSnapshot(c, body) ==
    IF cycles[c].snap # "ok"
    THEN UNCHANGED <<dom, signals, mounted>>
    ELSE IF variant = "class"
    THEN /\ dom' = renderSignals(dom, body)
         /\ UNCHANGED <<signals, mounted>>
    ELSE /\ signals' = SetState(signals, body)
         /\ mounted' = (mounted /\ ~ReactRenderThrows(snapshot, body))
         /\ UNCHANGED dom

\* this.renderSignals(data), line 43 / setSignals(data), line 180, followed by
\* the re-render of the component.
RenderSignalsCall(c, body) ==
    IF variant = "class"
    THEN /\ dom' = renderSignals(dom, body)
         /\ UNCHANGED <<signals, mounted>>
    ELSE /\ signals' = SetState(signals, body)
         /\ mounted' = (mounted /\ ~ReactRenderThrows(snapshot, body))
         /\ UNCHANGED dom

\* Mutant of SnapshotSettle: a rejected fetch is issued again within the
\* same cycle.
SnapshotSettleRetry(c, resp, body) ==
    /\ ~MicrotaskPending
    /\ c \in DOMAIN cycles
    /\ cycles[c].snap = "fetching"
    /\ IF resp = "reject"
       THEN /\ requests.snap < MaxCycles + 1
            /\ requests' = [requests EXCEPT !.snap = @ + 1]
            /\ lastOutcome' = "transport"
            /\ UNCHANGED <<cycles, dom, snapshot, lastUpdate, mounted>>
       ELSE /\ LET out == Outcome(resp = "ok", body, WellFormedSnapshot(body))
               IN  /\ cycles' = [cycles EXCEPT ![c].snap = SubState(out),
                                     ![c].snapBody = IF out = "ok" THEN body ELSE @]
                   /\ lastOutcome' = Failure(out)
            /\ IF body.kind = "undecodable"
               THEN UNCHANGED <<dom, snapshot, lastUpdate, mounted>>
               ELSE RenderSnapshotCall(body)
            /\ UNCHANGED requests
    /\ UNCHANGED <<variant, isUpdating, started, ticks, signals,
                   now, tornDown, input>>

\* updateSnapshot (lines 29-37) / fetchSnapshot (lines 164-173) runs to its
\* end.  resp is "reject" when fetch rejects (transport error), else the
\* status class of the response, "ok" or "err"; fetch resolves for every HTTP
\* status and the code never reads it.  body is what response.json() gives;
\* when json() rejects, the catch block logs and nothing is rendered.
SnapshotSettle(c, resp, body) ==
    /\ ~MicrotaskPending
    /\ c \in DOMAIN cycles
    /\ cycles[c].snap = "fetching"
    /\ IF resp = "reject"
       THEN /\ cycles' = [cycles EXCEPT ![c].snap = "failed",
                                         ![c].snapOvertaken = FALSE]
            /\ lastOutcome' = "transport"
            /\ UNCHANGED <<dom, snapshot, lastUpdate, mounted>>
       ELSE /\ LET out == Outcome(resp = "ok", body, WellFormedSnapshot(body))
               IN  /\ cycles' = [d \in DOMAIN cycles |->
                          IF d = c
                          THEN [cycles[c] EXCEPT !.snap = SubState(out),
                                  !.snapBody = IF out = "ok" /\ Rendering
                                               THEN body ELSE @,
                                  !.snapOvertaken = FALSE]
                          ELSE IF /\ out = "ok" /\ Rendering
                                  /\ d < c /\ cycles[d].snap = "fetching"
                          THEN [cycles[d] EXCEPT !.snapOvertaken = TRUE]
                          ELSE cycles[d]]
                   /\ lastOutcome' = Failure(out)
            /\ IF body.kind = "undecodable"
               THEN UNCHANGED <<dom, snapshot, lastUpdate, mounted>>
               ELSE RenderSnapshotCall(body)
    /\ UNCHANGED <<variant, isUpdating, started, ticks, signals,
                   now, tornDown, requests, input>>

\* updateSignals (lines 39-47) / fetchSignals (lines 176-184) runs to its end.
SignalsSettle(c, resp, body) ==
    /\ ~MicrotaskPending
    /\ c \in DOMAIN cycles
    /\ cycles[c].sig = "fetching"
    /\ IF resp = "reject"
       THEN /\ cycles' = [cycles EXCEPT ![c].sig = "failed",
                                         ![c].sigOvertaken = FALSE]
            /\ lastOutcome' = "transport"
            /\ UNCHANGED <<dom, signals, mounted>>
       ELSE /\ LET out == Outcome(resp = "ok", body, WellFormedSignals(body))
               IN  /\ cycles' = [d \in DOMAIN cycles |->
                          IF d = c
                          THEN [cycles[c] EXCEPT !.sig = SubState(out),
                                  !.sigBody = IF out = "ok" /\ Rendering
                                              THEN body ELSE @,
                                  !.sigOvertaken = FALSE]
                          ELSE IF /\ out = "ok" /\ Rendering
                                  /\ d < c /\ cycles[d].sig = "fetching"
                          THEN [cycles[d] EXCEPT !.sigOvertaken = TRUE]
                          ELSE cycles[d]]
                   /\ lastOutcome' = Failure(out)
            /\ IF body.kind = "undecodable"
               THEN UNCHANGED <<dom, signals, mounted>>
               ELSE RenderSignalsCall(c, body)
    /\ UNCHANGED <<variant, isUpdating, started, ticks, snapshot, lastUpdate,
                   now, tornDown, requests, input>>

\* Mutant of CycleFinally: the flag is not cleared when the cycle ends.
CycleFinallyNoRelease(c) ==
    /\ c \in DOMAIN cycles
    /\ cycles[c].snap \in Settled
    /\ cycles[c].sig \in Settled
    /\ cycles' = [d \in DOMAIN cycles \ {c} |-> cycles[d]]
    /\ lastOutcome' = "none"
    /\ UNCHANGED <<variant, isUpdating, mounted, started, ticks, dom, snapshot,
                   signals, lastUpdate, now, tornDown, requests, input>>

\* Mutant of CycleFinally: the flag is cleared after the await instead of in
\* a finally block, and a failed sub-fetch skips it.
CycleFinallyOnSuccess(c) ==
    /\ c \in DOMAIN cycles
    /\ cycles[c].snap \in Settled
    /\ cycles[c].sig \in Settled
    /\ isUpdating' = (IF cycles[c].snap = "ok" /\ cycles[c].sig = "ok"
                      THEN FALSE ELSE isUpdating)
    /\ cycles' = [d \in DOMAIN cycles \ {c} |-> cycles[d]]
    /\ lastOutcome' = "none"
    /\ UNCHANGED <<variant, mounted, started, ticks, dom, snapshot, signals,
                   lastUpdate, now, tornDown, requests, input>>

\* Mutant of CycleFinally: Promise.race instead of Promise.all, the cycle ends
\* when the first sub-fetch settles.
CycleFinallyRace(c) ==
    /\ c \in DOMAIN cycles
    /\ cycles[c].snap \in Settled \/ cycles[c].sig \in Settled
    /\ isUpdating' = (IF variant = "class" THEN FALSE ELSE SetState(isUpdating, FALSE))
    /\ cycles' = [d \in DOMAIN cycles \ {c} |-> cycles[d]]
    /\ lastOutcome' = "none"
    /\ UNCHANGED <<variant, mounted, started, ticks, dom, snapshot, signals,
                   lastUpdate, now, tornDown, requests, input>>

\* Promise.all has settled: the finally block of lines 24-26 and 195-197.
CycleFinally(c) ==
    /\ c \in DOMAIN cycles
    /\ cycles[c].snap \in Settled
    /\ cycles[c].sig \in Settled
    /\ isUpdating' = (IF variant = "class" THEN FALSE ELSE SetState(isUpdating, FALSE))
    /\ cycles' = [d \in DOMAIN cycles \ {c} |-> cycles[d]]
    /\ lastOutcome' = "none"
    /\ UNCHANGED <<variant, mounted, started, ticks, dom, snapshot, signals,
                   lastUpdate, now, tornDown, requests, input>>

Responses == {"reject", "ok", "err"}

\* The bodies a response may carry: a rejected fetch has no response, and
\* so no body (the undecodable one stands for it).
BodiesOf(resp, bodies) ==
    IF resp = "reject" THEN {b \in bodies : b.kind = "undecodable"} ELSE bodies

Next ==
    \/ PeriodElapses
    \/ Teardown
    \/ \E c \in DOMAIN cycles, resp \in Responses :
          \E body \in BodiesOf(resp, SnapshotBodies) : SnapshotSettle(c, resp, body)
    \/ \E c \in DOMAIN cycles, resp \in Responses :
          \E body \in BodiesOf(resp, SignalsBodies) : SignalsSettle(c, resp, body)
    \/ \E c \in DOMAIN cycles : CycleFinally(c)

Spec == Init /\ [][Next]_vars

\* The class variant alone, and the React variant alone.
InitClass == Init /\ variant = "class"
SpecClass == InitClass /\ [][Next]_vars
InitReact == Init /\ variant = "react"
SpecReact == InitReact /\ [][Next]_vars

TypeOK ==
    /\ variant \in {"class", "react"}
    /\ isUpdating \in BOOLEAN
    /\ started \in 1..MaxCycles
    /\ ticks \in 0..MaxTicks
    /\ now \in {k * updateInterval : k \in 0..MaxTicks}
    /\ tornDown \in BOOLEAN
    /\ requests \in [{"snap", "sig"} -> 1..MaxCycles]
    /\ DOMAIN cycles \subseteq 1..started
    /\ lastOutcome \in {"none", "transport", "status", "undecodable", "malformed"}
    /\ \A c \in DOMAIN cycles :
          /\ cycles[c].snap \in Settled \cup {"fetching"}
          /\ cycles[c].sig \in Settled \cup {"fetching"}

\* The scheduling the event loop guarantees: a settled Promise.all runs its
\* continuation; and, for the claims conditioned on the sub-fetches
\* resolving, every pending sub-fetch does settle.
FairSpec ==
    /\ Spec
    /\ WF_vars(\E c \in 1..MaxCycles : CycleFinally(c))
    /\ WF_vars(\E c \in 1..MaxCycles, resp \in Responses, body \in SnapshotBodies :
                  SnapshotSettle(c, resp, body))
    /\ WF_vars(\E c \in 1..MaxCycles, resp \in Responses, body \in SignalsBodies :
                  SignalsSettle(c, resp, body))

Pending(c) == cycles[c].snap = "fetching" \/ cycles[c].sig = "fetching"
BothSettled(c) == cycles[c].snap \in Settled /\ cycles[c].sig \in Settled

(***************************************************************************)
(* The two render calls as functions of the page, to compare the orders in *)
(* which the responses of one cycle may be delivered.                      *)
(***************************************************************************)
\* What the render calls read and write: the elements of the page (class),
\* the component state and whether the root is still mounted (React).
Page ==
    [dom |-> dom, snapshot |-> snapshot, signals |-> signals,
     lastUpdate |-> lastUpdate, mounted |-> mounted]

\* this.renderSnapshot(data), line 33 / setSnapshot(data); setLastUpdate(...),
\* lines 168-169, and the re-render: the page RenderSnapshotCall leaves.
SnapshotRendered(p, body) ==
    IF variant = "class"
    THEN [p EXCEPT !.dom = renderSnapshot(p.dom, body)]
    ELSE [p EXCEPT
            !.snapshot = IF p.mounted THEN body ELSE @,
            !.lastUpdate = IF body.kind = "object" /\ p.mounted
                           THEN LocaleTimeString(body.obj.timestamp) ELSE @,
            !.mounted = p.mounted /\ ~ReactRenderThrows(body, p.signals)]

\* this.renderSignals(data), line 43 / setSignals(data), line 180, and the
\* re-render: the page RenderSignalsCall leaves.
SignalsRendered(p, body) ==
    IF variant = "class"
    THEN [p EXCEPT !.dom = renderSignals(p.dom, body)]
    ELSE [p EXCEPT
            !.signals = IF p.mounted THEN body ELSE @,
            !.mounted = p.mounted /\ ~ReactRenderThrows(p.snapshot, body)]

\* What a page shows: the elements themselves (class); nothing once the root
\* is unmounted, the loading screen of lines 214-222 while the snapshot state
\* is null, else the panels of lines 224-364 (React).
PageView(p) ==
    IF variant = "class"
    THEN [state |-> "page",
          snap |-> [f \in SnapshotFields |-> p.dom[f]],
          sig |-> p.dom.signalsHtml]
    ELSE IF ~p.mounted
    THEN [state |-> "blank", snap |-> [f \in SnapshotFields |-> <<>>], sig |-> <<>>]
    ELSE IF SnapshotFalsy(p.snapshot)
    THEN [state |-> "loading", snap |-> [f \in SnapshotFields |-> <<>>], sig |-> <<>>]
    ELSE [state |-> "showing",
          snap |-> ReactSnapshotPanels(p.snapshot.obj, p.lastUpdate),
          sig |-> ReactSignalsPanel(p.signals)]

\* The functions above are the render calls of the settle steps: a response
\* that is rendered takes the page to the page the function gives.
RenderCallsAgree ==
    [][ \A c \in DOMAIN cycles \cap DOMAIN cycles' :
          /\ (Rendering /\ cycles[c].snap = "fetching" /\ cycles'[c].snap = "ok") =>
                Page' = SnapshotRendered(Page, cycles'[c].snapBody)
          /\ (Rendering /\ cycles[c].sig = "fetching" /\ cycles'[c].sig = "ok") =>
                Page' = SignalsRendered(Page, cycles'[c].sigBody)
      ]_vars

(***************************************************************************)
(* The renderer on its own: the render paths are called directly with      *)
(* payloads of the documented shape (sections 3 and 6 of the               *)
(* specification), optional fields present, absent or zero.                *)
(***************************************************************************)
Chars_PartiallyDegraded ==
    <<"P","a","r","t","i","a","l","l","y","-","D","e","g","r","a","d","e","d","!","!">>
Chars_NotRunning == <<"N","o","t"," ","R","u","n","n","i","n","g">>
Chars_Warning == <<"W","a","r","n","i","n","g">>
Chars_QQQ == <<"Q","Q","Q">>
Chars_Downtrend == <<"D","o","w","n","t","r","e","n","d">>

StatusSamples ==
    {Chars_Running, Chars_Stopped, Chars_Warning, Chars_PartiallyDegraded,
     Chars_NotRunning}

PnlSamples == {-1250, -1, 0, 1, 1250}

SymQQQ ==
    [symbol |-> Some(Chars_QQQ), trend |-> Some(Chars_Downtrend),
     current_price |-> Some(40010), price_change_pct |-> Some(250)]

\* SymbolState objects: price_change_pct negative, positive, zero and absent,
\* current_price present, zero and absent.
SymbolSamples ==
    {SymSPY, SymQQQ,
     [SymQQQ EXCEPT !.price_change_pct = Some(0)],
     [SymQQQ EXCEPT !.price_change_pct = None],
     [SymSPY EXCEPT !.current_price = None],
     [SymSPY EXCEPT !.current_price = Some(0), !.price_change_pct = Some(1)]}

SymbolLists ==
    {<<>>, <<SymSPY, SymQQQ>>, <<SymQQQ, SymSPY>>}
        \cup {<<sym>> : sym \in SymbolSamples}

SnapshotInputs ==
    {ObjectBody(SnapStopped)}
        \cup {ObjectBody([SnapRunning EXCEPT !.system_status = Some(st)]) :
                    st \in StatusSamples}
        \cup {ObjectBody([SnapRunning EXCEPT !.daily_pnl = Some(n)]) :
                    n \in PnlSamples}
        \cup {ObjectBody([SnapStopped EXCEPT !.symbols = Some(l)]) :
                    l \in SymbolLists}

\* The i-th signal of a history: signals differ in price and time, and
\* alternate between the two types.
SigAt(i) ==
    [(IF i % 2 = 0 THEN SigSell ELSE SigBuy) EXCEPT
        !.price = Some(10000 + i),
        !.timestamp = Some([date |-> 1, time |-> i])]

SignalHistory(n) == [i \in 1..n |-> SigAt(i)]

SignalsInputs ==
    {ArrayBody(SignalHistory(n)) : n \in 0..MaxSignals}
        \cup {ArrayBody(<<SigSell, SigBuy>>)}

InitRender ==
    /\ variant \in {"class", "react"}
    /\ mounted = TRUE
    /\ dom = InitialDom
    /\ snapshot = NullSnapshotBody
    /\ signals = ArrayBody(<<>>)
    /\ lastUpdate = "--"
    /\ lastOutcome = "none"
    /\ ticks = 0
    /\ now = 0
    /\ tornDown = FALSE
    /\ isUpdating = FALSE
    /\ started = 0
    /\ requests = [snap |-> 0, sig |-> 0]
    /\ cycles = <<>>
    /\ input = NoInput

\* this.renderSnapshot(body) / setSnapshot(body); setLastUpdate(...)
RenderSnapshotStep(body) ==
    /\ RenderSnapshotCall(body)
    \* repeated: the same payload as the call before; prevSymbols: the
    \* number of symbols of the payload of the call before
    /\ input' = [input EXCEPT
                    !.snap = body,
                    !.repeated = (input.snap = body),
                    !.prevSymbols = IF input.snap.kind = "object"
                                    THEN Len(Val(input.snap.obj.symbols)) ELSE 0]
    /\ UNCHANGED <<variant, isUpdating, cycles, started, ticks, signals,
                   lastOutcome, now, tornDown, requests>>

\* this.renderSignals(body) / setSignals(body)
RenderSignalsStep(body) ==
    /\ RenderSignalsCall(0, body)
    /\ input' = [input EXCEPT !.sig = body]
    /\ UNCHANGED <<variant, isUpdating, cycles, started, ticks, snapshot,
                   lastUpdate, lastOutcome, now, tornDown, requests>>

NextRender ==
    \/ \E body \in SnapshotInputs : RenderSnapshotStep(body)
    \/ \E body \in SignalsInputs : RenderSignalsStep(body)

RenderSpec == InitRender /\ [][NextRender]_vars

\* The snapshot render path called with uptime_seconds = 0, 1, 2, ...
UptimeBody(sec) == ObjectBody([SnapRunning EXCEPT !.uptime_seconds = Some(sec)])

RenderUptimeStep ==
    LET sec == IF input.snap.kind = "object"
               THEN Val(input.snap.obj.uptime_seconds) + 1 ELSE 0
    IN  /\ sec <= MaxUptime
        /\ RenderSnapshotStep(UptimeBody(sec))

UptimeSpec == InitRender /\ [][RenderUptimeStep]_vars

(***************************************************************************)
(* Claims.                                                                 *)
(***************************************************************************)

\* C1: in every variant at most one update cycle is in flight at any time; a
\* tick that fires while the previous cycle has unresolved sub-fetches starts
\* no new cycle.
C1_AtMostOneCycleInFlight == Cardinality(DOMAIN cycles) <= 1

\* C2: a cycle starts only at a timer tick (the first one starts at
\* construction), never at the completion of another cycle; a tick that finds
\* a cycle in flight starts nothing then or later; and a tick that fires when
\* the previous cycle has completed starts a new cycle.
C2_TicksDroppedNotQueued ==
    [][ /\ started' # started =>
            /\ ticks' = ticks + 1
            /\ started' = started + 1
            /\ DOMAIN cycles' = DOMAIN cycles \cup {started + 1}
        /\ (ticks' = ticks + 1 /\ DOMAIN cycles = {}) =>
            /\ started' = started + 1
            /\ (started + 1) \in DOMAIN cycles'
            /\ cycles'[started + 1].snap = "fetching"
            /\ cycles'[started + 1].sig = "fetching"
      ]_vars

\* C2 witness: in the class variant one tick was skipped during the first
\* cycle and the next tick, after its completion, started the second cycle.
C2_Witness ==
    /\ variant = "class"
    /\ ticks = 2
    /\ started = 2
    /\ DOMAIN cycles = {2}

\* C3: every started cycle whose sub-fetches resolve, with whatever
\* outcomes, completes, and its completion releases the guard.
C3_GuardEventuallyReleased ==
    \A c \in 1..MaxCycles :
        (c \in DOMAIN cycles) ~>
            (c \notin DOMAIN cycles /\ c <= started /\ ~GuardRead
                /\ (variant = "class" \/ mounted => ~isUpdating))

\* C3 witness: the first cycle of the class variant has completed with both
\* sub-fetches failed (nothing was rendered) and the flag is clear.
C3_Witness ==
    /\ variant = "class"
    /\ started = 1
    /\ DOMAIN cycles = {}
    /\ dom = InitialDom
    /\ ~isUpdating

C5_PartialFailure ==
    [][ \A c \in DOMAIN cycles :
          (c \notin DOMAIN cycles' /\ cycles[c].sig = "failed" /\ cycles[c].snap = "ok") =>
              /\ SnapshotView' = SnapshotViewOf(cycles[c].snapBody)
              /\ SignalView' = cycles[c].sigBefore
              /\ ~isUpdating'
      ]_vars

\* C6 as stated: when the snapshot fetch of a cycle has failed and its signal
\* fetch succeeds, the displayed signal list becomes the fetched one, also
\* when no snapshot has ever been obtained.
C6_SignalsShownDespiteSnapshotFailure ==
    [][ \A c \in DOMAIN cycles :
          (/\ c \in DOMAIN cycles'
           /\ cycles[c].snap = "failed"
           /\ cycles[c].sig = "fetching"
           /\ cycles'[c].sig = "ok") =>
              DisplayedSignals' = SignalViewOf(cycles'[c].sigBody)
      ]_vars

\* C6 amended: whatever the state of the snapshot fetch of its cycle, a signal
\* fetch that succeeds hands its list to the renderer; the class variant
\* displays it at once, the mounted React component stores it and displays it
\* in the "showing data" state, the loading placeholder otherwise.
C6_SignalsHandedOver ==
    [][ \A c \in DOMAIN cycles :
          (/\ c \in DOMAIN cycles'
           /\ cycles[c].sig = "fetching"
           /\ cycles'[c].sig = "ok") =>
              /\ variant = "class" =>
                    DisplayedSignals' = SignalViewOf(cycles'[c].sigBody)
              /\ (variant = "react" /\ mounted) =>
                    /\ signals' = cycles'[c].sigBody
                    /\ DisplayState' \in {"showing", "nodata"}
                    /\ DisplayState' = "showing" =>
                          DisplayedSignals' = SignalViewOf(cycles'[c].sigBody)
                    /\ DisplayState' = "nodata" =>
                          DisplayedSignals' = <<"loading">>
      ]_vars

\* C6 witness: in the React variant the snapshot fetch of a cycle has failed,
\* its signal fetch has delivered a non-empty list, which is stored, and the
\* component still shows the loading placeholder.
C6_Witness ==
    /\ variant = "react"
    /\ mounted
    /\ \E c \in DOMAIN cycles :
          /\ cycles[c].snap = "failed"
          /\ cycles[c].sig = "ok"
          /\ Len(cycles[c].sigBody.arr) > 0
          /\ signals = cycles[c].sigBody
    /\ DisplayState = "nodata"
    /\ DisplayedSignals = <<"loading">>

\* C7: a sub-fetch whose response has a non-success status makes no renderer
\* call and leaves the view of its entity as it was.
C7_NonSuccessStatusIsFailure ==
    [][ \A c \in DOMAIN cycles : c \in DOMAIN cycles' =>
          /\ (cycles[c].snap = "fetching" /\ cycles'[c].snap = "failed"
                /\ lastOutcome' = "status") =>
                /\ dom' = dom
                /\ snapshot' = snapshot
                /\ lastUpdate' = lastUpdate
                /\ SnapshotView' = SnapshotView
          /\ (cycles[c].sig = "fetching" /\ cycles'[c].sig = "failed"
                /\ lastOutcome' = "status") =>
                /\ dom' = dom
                /\ signals' = signals
                /\ SignalView' = SignalView
      ]_vars

\* C8: a transport error or an undecodable body leaves the entity and its
\* view unchanged, and the displayed snapshot (signal list) is always the
\* payload of the latest successful fetch: a successful fetch displays its
\* payload and nothing else changes the view.
C8_ViewIsLatestSuccessfulPayload ==
    [][ /\ \A c \in DOMAIN cycles : c \in DOMAIN cycles' =>
              /\ (cycles[c].snap = "fetching"
                    /\ cycles'[c].snap = "failed"
                    /\ lastOutcome' \in {"transport", "undecodable"}) =>
                    /\ dom' = dom
                    /\ snapshot' = snapshot
                    /\ lastUpdate' = lastUpdate
                    /\ SnapshotView' = SnapshotView
              /\ (cycles[c].sig = "fetching"
                    /\ cycles'[c].sig = "failed"
                    /\ lastOutcome' \in {"transport", "undecodable"}) =>
                    /\ dom' = dom
                    /\ signals' = signals
                    /\ SignalView' = SignalView
              /\ (cycles[c].snap = "fetching" /\ cycles'[c].snap = "ok") =>
                    SnapshotView' = SnapshotViewOf(cycles'[c].snapBody)
              /\ (cycles[c].sig = "fetching" /\ cycles'[c].sig = "ok") =>
                    SignalView' = SignalViewOf(cycles'[c].sigBody)
        /\ SnapshotView' # SnapshotView =>
              \E c \in DOMAIN cycles \cap DOMAIN cycles' :
                  cycles[c].snap = "fetching" /\ cycles'[c].snap = "ok"
        /\ SignalView' # SignalView =>
              \E c \in DOMAIN cycles \cap DOMAIN cycles' :
                  cycles[c].sig = "fetching" /\ cycles'[c].sig = "ok"
      ]_vars

\* C9: a snapshot body that decodes but is not of the documented shape leaves
\* the snapshot view entirely as it was, and the dashboard keeps running.
C9_MalformedSnapshotLeavesViewUntouched ==
    [][ \A c \in DOMAIN cycles :
          (/\ c \in DOMAIN cycles'
           /\ cycles[c].snap = "fetching"
           /\ cycles'[c].snap = "failed"
           /\ lastOutcome' = "malformed") =>
              /\ dom' = dom
              /\ SnapshotView' = SnapshotView
              /\ mounted' = mounted
      ]_vars

\* C10: once the dashboard shows data it never shows "no data yet" again.
C10_ShowingDataIsOneWay ==
    [][ DisplayState = "showing" => DisplayState' # "nodata" ]_vars

\* C11: a payload of a cycle is never rendered after the payload of a cycle
\* started later has been rendered for the same entity.
C11_NoOutOfOrderStaleness ==
    [][ \A c \in DOMAIN cycles : c \in DOMAIN cycles' =>
          /\ (cycles[c].snap = "fetching" /\ cycles'[c].snap = "ok" /\ Rendering) =>
                ~cycles[c].snapOvertaken
          /\ (cycles[c].sig = "fetching" /\ cycles'[c].sig = "ok" /\ Rendering) =>
                ~cycles[c].sigOvertaken
      ]_vars

\* C12: once the dashboard is torn down, in either variant, no timer tick
\* fires, no cycle is started and no request is issued.
C12_TeardownStopsScheduler ==
    [][ tornDown =>
          /\ ticks' = ticks
          /\ started' = started
          /\ requests' = requests
      ]_vars

\* C13: the first cycle has been started, and its requests issued, at time 0
\* (before any period has passed), and for as long as the dashboard has not
\* been torn down every period of 2000 ms ends with a tick: the k-th tick
\* fires when k periods have passed.
C13_ImmediateThenPeriodic ==
    [][ /\ started >= 1
        /\ requests.snap >= 1 /\ requests.sig >= 1
        /\ (now' # now /\ ~tornDown) =>
              /\ now' = now + 2000
              /\ ticks' = ticks + 1
              /\ now' = 2000 * ticks'
      ]_vars

\* C14: each endpoint has received exactly one request per started cycle;
\* the two requests of a cycle are issued in the step that starts it, and no
\* other step, in particular no failed sub-fetch, issues a request.
C14_OneRequestPerEndpointPerCycle ==
    [][ /\ requests.snap = started
        /\ requests.sig = started
        /\ started' = started => requests' = requests
        /\ started' # started =>
              /\ requests' = [snap |-> requests.snap + 1, sig |-> requests.sig + 1]
              /\ cycles'[started'].snap = "fetching"
              /\ cycles'[started'].sig = "fetching"
      ]_vars

\* C14 witness: both sub-fetches of the first cycle failed on a transport
\* error, nothing was rendered, the second cycle has started and each
\* endpoint has received two requests.
C14_Witness ==
    /\ started = 2
    /\ 2 \in DOMAIN cycles
    /\ dom = InitialDom
    /\ snapshot = NullSnapshotBody
    /\ signals = ArrayBody(<<>>)
    /\ requests = [snap |-> 2, sig |-> 2]

\* C15: the displayed signal list consists of exactly the first
\* min(10, length) elements of the history handed to the renderer, in input
\* order (the placeholder for an empty history), whatever its length.
C15_SignalListTruncated ==
    (input.sig.kind = "array" /\ DisplayState # "nodata") =>
        LET a == input.sig.arr
            n == IF Len(a) < 10 THEN Len(a) ELSE 10
        IN  DisplayedSignals =
                IF Len(a) = 0 THEN <<"no-signals">>
                ELSE Concat([i \in 1..n |->
                        IF variant = "class" THEN SignalItemHtml(a[i])
                        ELSE ReactSignalItem(a[i])])

\* C15 witness: a history of 15 signals has been rendered and the list
\* displayed ends with the 10th signal.
C15_Witness ==
    /\ input.sig.kind = "array"
    /\ Len(input.sig.arr) = 15
    /\ DisplayState = "showing"
    /\ LET item == IF variant = "class" THEN SignalItemHtml(input.sig.arr[10])
                   ELSE ReactSignalItem(input.sig.arr[10])
       IN  SubSeq(DisplayedSignals, Len(DisplayedSignals) - Len(item) + 1,
                  Len(DisplayedSignals)) = item

\* C16: the view of an entity is a function of the last payload rendered
\* for it alone: it equals the rendering of that payload on the untouched
\* page, whatever was displayed before, so that nothing of an earlier
\* payload survives and rendering a payload again changes nothing.
C16_ViewIsFunctionOfPayload ==
    /\ input.snap.kind = "object" => SnapshotView = SnapshotViewOf(input.snap)
    /\ input.sig.kind = "array" => SignalView = SignalViewOf(input.sig)

\* C16 witness: in the class variant a snapshot with two symbols has been
\* replaced by a snapshot without symbols, the symbol list shows the
\* placeholder, and a signal history has been rendered as well.
C16_Witness ==
    /\ variant = "class"
    /\ input.prevSymbols = 2
    /\ input.snap.kind = "object"
    /\ Val(input.snap.obj.symbols) = <<>>
    /\ dom.symbolsHtml = <<"no-symbols">>
    /\ input.sig.kind = "array"
    /\ Len(input.sig.arr) = 2

\* C17: for every uptime_seconds in 0..MaxUptime the uptime displayed is
\* hours = floor(seconds / 3600) and minutes = floor((seconds mod 3600) / 60),
\* with minutes in 0..59 and
\* hours*3600 + minutes*60 <= seconds < hours*3600 + (minutes+1)*60.
C17_UptimeFormat ==
    input.snap.kind = "object" =>
        LET sec == Val(input.snap.obj.uptime_seconds)
        IN  \E h \in 0..(MaxUptime \div 3600 + 1), m \in 0..59 :
                /\ h * 3600 + m * 60 <= sec
                /\ sec < h * 3600 + (m + 1) * 60
                /\ h = sec \div 3600
                /\ m = (sec % 3600) \div 60
                /\ SnapshotView.uptime = <<ToString(h), "h", ToString(m), "m">>

\* C17 witness: 3725 seconds are displayed as 1 hour 2 minutes, and 7199
\* seconds would be 1 hour 59 minutes.
C17_Witness ==
    /\ input.snap.kind = "object"
    /\ Val(input.snap.obj.uptime_seconds) = 3725
    /\ SnapshotView.uptime = <<"1", "h", "2", "m">>
    /\ formatUptime(Some(7199)) = <<"1", "h", "59", "m">>

\* C18: in every variant the class attribute of the status element is its
\* fixed base class followed by the style key, the status string lower-cased
\* with every non-alphabetic character deleted.
C18_StatusClassIsStrippedLowercase ==
    (input.snap.kind = "object" /\ DisplayState = "showing") =>
        LET key == StripNonLower(ToLowerCase(Val(input.snap.obj.system_status)))
            attr == SnapshotView.statusClass
        IN  attr = <<attr[1]>> \o key

\* C19: for a snapshot with one symbol, nothing follows the price in the
\* symbol's entry when price_change_pct is absent or zero, the percentage
\* follows it when price_change_pct is non-zero, and the price is the
\* placeholder when current_price is absent or zero.
C19_OptionalFields ==
    (/\ input.snap.kind = "object"
     /\ DisplayState = "showing"
     /\ Len(Val(input.snap.obj.symbols)) = 1) =>
        LET sym == Val(input.snap.obj.symbols)[1]
            html == SnapshotView.symbolsHtml
            \* the position of the price in the entry
            k == 1 + Len(Val(sym.symbol)) + 1 + Len(Val(sym.trend)) + 1
                   + (IF variant = "class" THEN Len(Val(sym.trend)) ELSE 0)
        IN  /\ ~Truthy(sym.current_price) => html[k] = "$--"
            /\ Truthy(sym.current_price) =>
                  html[k] = "$" \o ToFixed2(Val(sym.current_price))
            /\ ~Truthy(sym.price_change_pct) => Len(html) = k
            /\ Truthy(sym.price_change_pct) =>
                  /\ Len(html) = k + 2
                  /\ html[k + 2] = ToFixed2(Val(sym.price_change_pct)) \o "%"

\* C20: the PnL has the positive colour when daily_pnl >= 0 and the negative
\* colour otherwise, and whatever is rendered for the price_change_pct of a
\* symbol has the positive colour when it is >= 0 and the negative colour
\* otherwise; no third colour occurs.
C20_SignTest ==
    (input.snap.kind = "object" /\ DisplayState = "showing") =>
        LET o == input.snap.obj
            pos == IF variant = "class" THEN "#27ae60" ELSE "text-green-600"
            neg == IF variant = "class" THEN "#e74c3c" ELSE "text-red-600"
            style == IF variant = "class" THEN "color:" ELSE ""
        IN  /\ SnapshotView.pnlColor = <<IF Val(o.daily_pnl) >= 0 THEN pos ELSE neg>>
            /\ Len(Val(o.symbols)) = 1 =>
                  LET sym == Val(o.symbols)[1]
                      html == SnapshotView.symbolsHtml
                      k == 1 + Len(Val(sym.symbol)) + 1 + Len(Val(sym.trend)) + 1
                             + (IF variant = "class" THEN Len(Val(sym.trend)) ELSE 0)
                  IN  (Def(sym.price_change_pct) /\ Len(html) > k) =>
                          html[k + 1] = style \o
                              (IF Val(sym.price_change_pct) >= 0 THEN pos ELSE neg)

\* C21: once the dashboard is torn down, no step, in particular no response
\* of a sub-fetch still in flight, changes the page, the last-known values
\* or the view, and none brings the dashboard down.
C21_ResponsesAfterTeardownDiscarded ==
    [][ tornDown =>
          /\ dom' = dom
          /\ snapshot' = snapshot
          /\ signals' = signals
          /\ lastUpdate' = lastUpdate
          /\ SnapshotView' = SnapshotView
          /\ SignalView' = SignalView
          /\ mounted' = mounted
      ]_vars

\* C22: whenever a timer tick can fire, the flag it reads is true exactly
\* when a cycle is in flight, that is when a sub-fetch of a started cycle is
\* unresolved; and the step that finds it false sets it.
C22_GuardFlagConsistent ==
    [][ /\ ~MicrotaskPending =>
              (GuardRead <=> \E c \in DOMAIN cycles : Pending(c))
        /\ (ticks' = ticks + 1 /\ started' # started) =>
              (~GuardRead /\ GuardRead')
      ]_vars

\* C23: whenever a cycle has both sub-fetches in flight, delivering any two
\* successful payloads snapshot first or signals first leaves the same view
\* (neither render call touches the guard flag, which the end of the cycle
\* clears in both orders).
C23_CompletionOrderIndependent ==
    (/\ ~MicrotaskPending
     /\ \E c \in DOMAIN cycles :
           cycles[c].snap = "fetching" /\ cycles[c].sig = "fetching")
    => \A s \in {b \in SnapshotBodies : WellFormedSnapshot(b)},
          g \in {b \in SignalsBodies : WellFormedSignals(b)} :
          PageView(SignalsRendered(SnapshotRendered(Page, s), g))
              = PageView(SnapshotRendered(SignalsRendered(Page, g), s))

=============================================================================
